---- MODULE Spec2Model ----
(***************************************************************************)
(* Model of the compops backend core:                                      *)
(*   - SmartSBOMGraph (backend/smart_sbom_graph.py): the networkx DiGraph  *)
(*     of projects, components and vulnerabilities, its ingestion          *)
(*     (generate_sbom), its pickle snapshot and its queries;               *)
(*   - the Flask handlers of backend/app.py that call it from the          *)
(*     threads of the server;                                              *)
(*   - UniversalUpgradeEngine.check_upgrade_feasibility                    *)
(*     (backend/universal_upgrade.py).                                     *)
(* Three specifications share the variables:                               *)
(*   SpecSeq      the public methods of SmartSBOMGraph called one after    *)
(*                the other, each call one atomic action;                  *)
(*   Spec         the server: request threads running generate_sbom one    *)
(*                statement at a time, readers, and process crashes;       *)
(*   SpecUpgrade  check_upgrade_feasibility applied to bounded inputs.     *)
(***************************************************************************)
EXTENDS Integers, Sequences, FiniteSets, TLC

VARIABLES
    graph,      \* SmartSBOMGraph.graph: the in-memory nx.DiGraph
    disk,       \* the file database/graph_store.pickle
    lastCall,   \* SpecSeq: the method call that ran last, with its arguments
    ret,        \* SpecSeq: what that call returned
    ncalls,     \* SpecSeq: number of calls made so far
    prevCall,   \* SpecSeq (history): the call before lastCall
    prevGraph,  \* SpecSeq (history): the graph as lastCall found it
    up,         \* Spec: the server process is running (module import succeeded)
    nextId,     \* Spec: next AUTOINCREMENT id of the projects table
    th,         \* Spec: per request thread, its position and locals
    committed,  \* Spec (history): the graph with every finished ingestion applied whole
    tornRead,   \* Spec (history): a torn read has been served
    row,        \* SpecUpgrade: the vulnerabilities row read by the check
    pypi,       \* SpecUpgrade: what pypi.org answered
    npm,        \* SpecUpgrade: what registry.npmjs.org answered
    verdict     \* SpecUpgrade: the dict check_upgrade_feasibility returned

graphVars == <<graph, disk>>
seqVars == <<lastCall, ret, ncalls, prevCall, prevGraph>>
srvVars == <<up, nextId, th, committed, tornRead>>
upgVars == <<row, pypi, npm, verdict>>
vars == <<graph, disk, lastCall, ret, ncalls, prevCall, prevGraph, up, nextId, th, committed, tornRead,
          row, pypi, npm, verdict>>

(***************************************************************************)
(* Bounds of the model.                                                    *)
(***************************************************************************)
MaxProjectId == 2       \* SpecSeq: project ids passed to the methods are 1..MaxProjectId
MaxCalls == 4           \* SpecSeq: number of method calls in one run
MaxProjects == 2        \* Spec: rows the projects table can take (caps AUTOINCREMENT)
NumThreads == 2         \* Spec: request threads of the server

Urls == {"https://a.example/r.git", "https://b.example/r.git"}
\* Spec: the repo_url of every POST
PostedUrls == {"https://a.example/r.git"}

(***************************************************************************)
(* networkx.DiGraph, as far as SmartSBOMGraph uses it.  A graph is a       *)
(* record: node maps each node id to its attribute dict, adj maps each     *)
(* edge <<u, v>> to its attribute dict.  Dicts are functions from keys.    *)
(***************************************************************************)
None == "None"

EmptyAttrs == [k \in {} |-> None]

EmptyGraph == [node |-> [n \in {} |-> EmptyAttrs], adj |-> [e \in {} |-> EmptyAttrs]]

\* dict.update: keys of new overwrite, the other keys of old stay
UpdateAttrs(old, new) ==
    [k \in DOMAIN old \cup DOMAIN new |-> IF k \in DOMAIN new THEN new[k] ELSE old[k]]

\* dict.get(key) / dict.get(key, default)
Get(attrs, key, default) == IF key \in DOMAIN attrs THEN attrs[key] ELSE default

Nodes(g) == DOMAIN g.node

Edges(g) == DOMAIN g.adj

HasNode(g, n) == n \in Nodes(g)

\* DiGraph.add_node(n, **attrs): creates n, or updates the attributes of an existing n
AddNode(g, n, attrs) ==
    [g EXCEPT !.node =
        [m \in Nodes(g) \cup {n} |->
            IF m = n
            THEN UpdateAttrs(IF HasNode(g, n) THEN g.node[n] ELSE EmptyAttrs, attrs)
            ELSE g.node[m]]]

\* Writes the adjacency entry only, without creating the endpoints.
PutEdge(g, u, v, attrs) ==
    [g EXCEPT !.adj =
        [e \in Edges(g) \cup {<<u, v>>} |->
            IF e = <<u, v>>
            THEN UpdateAttrs(IF e \in Edges(g) THEN g.adj[e] ELSE EmptyAttrs, attrs)
            ELSE g.adj[e]]]

\* DiGraph.add_edge(u, v, **attrs): missing endpoints are created with no
\* attributes, then the edge is created or its attributes updated
AddEdge(g, u, v, attrs) ==
    LET g1 == IF HasNode(g, u) THEN g ELSE AddNode(g, u, EmptyAttrs)
        g2 == IF HasNode(g1, v) THEN g1 ELSE AddNode(g1, v, EmptyAttrs)
    IN  PutEdge(g2, u, v, attrs)

Successors(g, n) == {v \in Nodes(g) : <<n, v>> \in Edges(g)}

Predecessors(g, n) == {u \in Nodes(g) : <<u, n>> \in Edges(g)}

\* Breadth-first search from the frontier: dist maps every node found so far
\* to its number of edges from the source.
RECURSIVE BFS(_, _, _, _)
BFS(g, frontier, dist, k) ==
    IF frontier = {} THEN dist
    ELSE LET next == {v \in Nodes(g) : v \notin DOMAIN dist
                                        /\ \E u \in frontier : <<u, v>> \in Edges(g)}
             d2 == [v \in DOMAIN dist \cup next |->
                        IF v \in DOMAIN dist THEN dist[v] ELSE k + 1]
         IN  BFS(g, next, d2, k + 1)

Distances(g, s) == BFS(g, {s}, [v \in {s} |-> 0], 0)

\* nx.has_path(G, source, target); the caller has checked both nodes are in G
HasPath(g, s, t) == t \in DOMAIN Distances(g, s)

RECURSIVE PathTo(_, _, _)
PathTo(g, dist, t) ==
    IF dist[t] = 0 THEN <<t>>
    ELSE LET u == CHOOSE u \in DOMAIN dist :
                      dist[u] = dist[t] - 1 /\ <<u, t>> \in Edges(g)
         IN  Append(PathTo(g, dist, u), t)

\* nx.shortest_path(G, source, target): one path with the fewest edges
ShortestPath(g, s, t) == PathTo(g, Distances(g, s), t)

\* nx.descendants(G, source): every node reachable from source, source excluded
Descendants(g, s) == DOMAIN Distances(g, s) \ {s}

(***************************************************************************)
(* SmartSBOMGraph.generate_sbom: the component list it ingests, and its    *)
(* statements on the graph.                                                *)
(***************************************************************************)
Components == <<
    [name |-> "requests",   version |-> "2.28.1", type |-> "library",
     vulnerabilities |-> <<"CVE-2023-1234">>],
    [name |-> "flask",      version |-> "2.3.0",  type |-> "framework",
     vulnerabilities |-> <<>>],
    [name |-> "sqlalchemy", version |-> "1.4.47", type |-> "library",
     vulnerabilities |-> <<"CVE-2023-5678">>],
    [name |-> "jinja2",     version |-> "3.1.2",  type |-> "template",
     vulnerabilities |-> <<>>],
    [name |-> "werkzeug",   version |-> "2.3.0",  type |-> "library",
     vulnerabilities |-> <<"CVE-2023-9012">>] >>

Timestamp == "2024-01-01"

\* f'project_{project_id}'
ProjectNode(pid) == "project_" \o ToString(pid)

\* f"{comp['name']}_{comp['version']}"
CompNode(comp) == comp.name \o "_" \o comp.version

\* f"vuln_{vuln_id}"
VulnNode(vid) == "vuln_" \o vid

SeverityOf(vid) == IF vid = "CVE-2023-1234" THEN "HIGH" ELSE "MEDIUM"

\* lines 50-53
StmtAddProject(g, pid, url) ==
    AddNode(g, ProjectNode(pid),
            [type |-> "project", url |-> url, timestamp |-> Timestamp])

\* lines 56-61
StmtAddComponent(g, comp) ==
    AddNode(g, CompNode(comp),
            [type |-> "component", name |-> comp.name, version |-> comp.version,
             vulns |-> comp.vulnerabilities])

\* lines 64-65
StmtAddDependsOn(g, pid, comp) ==
    AddEdge(g, ProjectNode(pid), CompNode(comp), [relationship |-> "DEPENDS_ON"])

StmtAddVulnInverted(g, vid) ==
    IF HasNode(g, VulnNode(vid))
    THEN AddNode(g, VulnNode(vid),
                 [type |-> "vulnerability", id |-> vid, severity |-> SeverityOf(vid)])
    ELSE g

\* lines 69-74 with an add_node for a node that exists too, carrying the
\* severity of a later, lower observation
StmtAddVulnDowngrade(g, vid) ==
    AddNode(g, VulnNode(vid),
            [type |-> "vulnerability", id |-> vid,
             severity |-> IF HasNode(g, VulnNode(vid)) THEN "LOW" ELSE SeverityOf(vid)])

\* lines 69-74
StmtAddVuln(g, vid) ==
    IF ~HasNode(g, VulnNode(vid))
    THEN AddNode(g, VulnNode(vid),
                 [type |-> "vulnerability", id |-> vid, severity |-> SeverityOf(vid)])
    ELSE g

\* line 76
StmtAddAffectedBy(g, comp, vid) ==
    AddEdge(g, CompNode(comp), VulnNode(vid), [relationship |-> "AFFECTED_BY"])

\* lines 68-76: the inner loop from the j-th vulnerability of comp on
RECURSIVE IngestVulns(_, _, _)
IngestVulns(g, comp, j) ==
    IF j > Len(comp.vulnerabilities) THEN g
    ELSE LET vid == comp.vulnerabilities[j]
         IN  IngestVulns(StmtAddAffectedBy(StmtAddVuln(g, vid), comp, vid), comp, j + 1)

\* lines 55-76: the outer loop from the i-th component on
RECURSIVE IngestComps(_, _, _)
IngestComps(g, pid, i) ==
    IF i > Len(Components) THEN g
    ELSE LET comp == Components[i]
             g1 == StmtAddDependsOn(StmtAddComponent(g, comp), pid, comp)
         IN  IngestComps(IngestVulns(g1, comp, 1), pid, i + 1)

\* lines 49-76: everything generate_sbom does to self.graph
Ingest(g, pid, url) == IngestComps(StmtAddProject(g, pid, url), pid, 1)

(***************************************************************************)
(* The snapshot file.  state is "absent" (no file), "partial" (the file    *)
(* exists and does not hold a whole pickle: open(..., 'wb') has truncated  *)
(* it and pickle.dump has not finished) or "complete" (content is the      *)
(* pickled graph).                                                         *)
(***************************************************************************)
NoFile == [state |-> "absent", content |-> EmptyGraph]

\* open(self.graph_file, 'wb'): creates or truncates the file
Truncated == [state |-> "partial", content |-> EmptyGraph]

\* pickle.dump(self.graph, f) run to its end, and the file closed
Pickled(g) == [state |-> "complete", content |-> g]

\* _save_graph run from its first line to its last
SaveGraph(g) == Pickled(g)

(***************************************************************************)
(* The queries.                                                            *)
(***************************************************************************)
\* One entry of the list query_reachable_vulnerabilities returns (lines 107-112)
ReachableEntryPathToVuln(g, pid, vnode, comp) ==
    [vulnerability |-> Get(g.node[vnode], "id", None),
     component     |-> Get(g.node[comp], "name", None),
     version       |-> Get(g.node[comp], "version", None),
     path          |-> ShortestPath(g, ProjectNode(pid), vnode)]

ReachableEntry(g, pid, vnode, comp) ==
    [vulnerability |-> Get(g.node[vnode], "id", None),
     component     |-> Get(g.node[comp], "name", None),
     version       |-> Get(g.node[comp], "version", None),
     path          |-> ShortestPath(g, ProjectNode(pid), comp)]

\* The components the sweep keeps for one vulnerability node (lines 101-105).
\* nx.has_path raises NodeNotFound when the project node is not in the graph;
\* the except clause then drops this vulnerability node.
ReachableCompsViaSuccessors(g, pid, vnode) ==
    IF ~HasNode(g, ProjectNode(pid)) THEN {}
    ELSE {comp \in Successors(g, vnode) : HasPath(g, ProjectNode(pid), comp)}

ReachableComps(g, pid, vnode) ==
    IF ~HasNode(g, ProjectNode(pid)) THEN {}
    ELSE {comp \in Predecessors(g, vnode) : HasPath(g, ProjectNode(pid), comp)}

\* query_reachable_vulnerabilities (lines 90-116); the entries as a set
QueryReachable(g, pid) ==
    UNION { {ReachableEntry(g, pid, vnode, comp) : comp \in ReachableComps(g, pid, vnode)} :
            vnode \in {n \in Nodes(g) : Get(g.node[n], "type", None) = "vulnerability"} }

\* get_graph_data with the edges that enter the node set instead of those that
\* leave it
GraphDataInEdges(g, pid) ==
    IF ~HasNode(g, ProjectNode(pid))
    THEN [raised |-> "NetworkXError", nodes |-> {}, links |-> {}]
    ELSE LET sub == Descendants(g, ProjectNode(pid)) \cup {ProjectNode(pid)}
         IN  [raised |-> None,
              nodes |-> {[id |-> n, name |-> n,
                          type |-> Get(g.node[n], "type", "unknown"),
                          vulns |-> Get(g.node[n], "vulns", <<>>)] : n \in sub},
              links |-> {[source |-> e[1], target |-> e[2],
                          relationship |-> Get(g.adj[e], "relationship", "unknown")] :
                         e \in {e \in Edges(g) : e[2] \in sub}}]

\* get_graph_data with an except clause that also catches what nx.descendants
\* raises: the lists are returned as they are, empty
GraphDataCatchAll(g, pid) ==
    IF ~HasNode(g, ProjectNode(pid))
    THEN [raised |-> None, nodes |-> {}, links |-> {}]
    ELSE LET sub == Descendants(g, ProjectNode(pid)) \cup {ProjectNode(pid)}
         IN  [raised |-> None,
              nodes |-> {[id |-> n, name |-> n,
                          type |-> Get(g.node[n], "type", "unknown"),
                          vulns |-> Get(g.node[n], "vulns", <<>>)] : n \in sub},
              links |-> {[source |-> e[1], target |-> e[2],
                          relationship |-> Get(g.adj[e], "relationship", "unknown")] :
                         e \in {e \in Edges(g) : e[1] \in sub}}]

\* get_graph_data (lines 118-146).  nx.descendants raises NetworkXError for a
\* node that is not in the graph, which the except clause does not name.
GraphData(g, pid) ==
    IF ~HasNode(g, ProjectNode(pid))
    THEN [raised |-> "NetworkXError", nodes |-> {}, links |-> {}]
    ELSE LET sub == Descendants(g, ProjectNode(pid)) \cup {ProjectNode(pid)}
         IN  [raised |-> None,
              nodes |-> {[id |-> n, name |-> n,
                          type |-> Get(g.node[n], "type", "unknown"),
                          vulns |-> Get(g.node[n], "vulns", <<>>)] : n \in sub},
              links |-> {[source |-> e[1], target |-> e[2],
                          relationship |-> Get(g.adj[e], "relationship", "unknown")] :
                         e \in {e \in Edges(g) : e[1] \in sub}}]

(***************************************************************************)
(* SpecSeq: the methods of one SmartSBOMGraph called one after the other.  *)
(***************************************************************************)
NoCall == [op |-> "none", project |-> 0, url |-> None]

NoData == [raised |-> None, nodes |-> {}, links |-> {}]

NoRet == [sbom |-> None, reachable |-> {}, data |-> NoData]

InitGraph ==
    /\ graph = EmptyGraph
    /\ disk = NoFile

InitSeq ==
    /\ lastCall = NoCall
    /\ ret = NoRet
    /\ ncalls = 0
    /\ prevCall = NoCall
    /\ prevGraph = EmptyGraph

\* generate_sbom(project_id, repo_url), lines 29-88
GenerateSbom(pid, url) ==
    /\ ncalls < MaxCalls
    /\ graph' = Ingest(graph, pid, url)
    /\ disk' = SaveGraph(graph')
    /\ lastCall' = [op |-> "generate_sbom", project |-> pid, url |-> url]
    /\ ret' = [NoRet EXCEPT !.sbom = [status |-> "success", components |-> Len(Components)]]
    /\ ncalls' = ncalls + 1
    /\ prevCall' = lastCall
    /\ prevGraph' = graph
    /\ UNCHANGED <<srvVars, upgVars>>

\* query_reachable_vulnerabilities(project_id, ...), lines 90-116
QueryReachableVulnerabilities(pid) ==
    /\ ncalls < MaxCalls
    /\ lastCall' = [op |-> "query_reachable_vulnerabilities", project |-> pid, url |-> None]
    /\ ret' = [NoRet EXCEPT !.reachable = QueryReachable(graph, pid)]
    /\ ncalls' = ncalls + 1
    /\ prevCall' = lastCall
    /\ prevGraph' = graph
    /\ UNCHANGED graphVars
    /\ UNCHANGED <<srvVars, upgVars>>

\* get_graph_data(project_id), lines 118-146
GetGraphData(pid) ==
    /\ ncalls < MaxCalls
    /\ lastCall' = [op |-> "get_graph_data", project |-> pid, url |-> None]
    /\ ret' = [NoRet EXCEPT !.data = GraphData(graph, pid)]
    /\ ncalls' = ncalls + 1
    /\ prevCall' = lastCall
    /\ prevGraph' = graph
    /\ UNCHANGED graphVars
    /\ UNCHANGED <<srvVars, upgVars>>


(***************************************************************************)
(* Spec: the server of app.py.  Flask serves each request on a thread of   *)
(* its own and every handler uses the one module-level sbom_graph with no  *)
(* lock, so the statements of concurrent handlers interleave.  A thread    *)
(* record holds the handler's position (pc) and locals.                    *)
(***************************************************************************)
Threads == 1..NumThreads

Idle == [pc |-> "idle", project |-> 0, url |-> None, i |-> 0, j |-> 0]

\* positions of generate_sbom at which the thread has started and not finished
\* changing the graph and writing the snapshot (after line 50, up to line 78)
WriterSection == {"add_component", "add_depends_on", "add_vuln", "add_affected_by",
                  "save_open", "save_dump"}

\* positions inside generate_sbom
IngestSection == WriterSection \cup {"add_project", "store_sbom"}

\* positions inside _save_graph after the file has been opened
SaveSection == {"save_dump"}

InitServer ==
    /\ up = TRUE
    /\ nextId = 1
    /\ th = [t \in Threads |-> Idle]
    /\ committed = EmptyGraph
    /\ tornRead = FALSE

\* where the outer loop goes after component i is finished
AfterComponent(r) ==
    IF r.i < Len(Components)
    THEN [r EXCEPT !.pc = "add_component", !.i = r.i + 1, !.j = 0]
    ELSE [r EXCEPT !.pc = "save_open", !.j = 0]

\* handle_projects, POST, lines 82-90: the INSERT into projects.  taken says
\* that the posted name is already in the table (there are nextId - 1 rows):
\* that violates UNIQUE, sqlite3.IntegrityError leaves the handler and the
\* thread is free again.
HandlePost(t, taken, url) ==
    /\ up
    /\ th[t].pc = "idle"
    /\ nextId <= MaxProjects
    /\ taken => nextId > 1
    /\ IF taken
       THEN UNCHANGED <<nextId, th>>
       ELSE /\ nextId' = nextId + 1
            /\ th' = [th EXCEPT ![t] = [Idle EXCEPT !.pc = "add_project",
                                                   !.project = nextId, !.url = url]]
    /\ UNCHANGED <<graph, disk, up, committed, tornRead>>
    /\ UNCHANGED <<seqVars, upgVars>>

\* generate_sbom lines 50-53
AddProjectNode(t) ==
    /\ up
    /\ th[t].pc = "add_project"
    /\ graph' = StmtAddProject(graph, th[t].project, th[t].url)
    /\ th' = [th EXCEPT ![t] = [@ EXCEPT !.pc = "add_component", !.i = 1]]
    /\ UNCHANGED <<disk, up, nextId, committed, tornRead>>
    /\ UNCHANGED <<seqVars, upgVars>>

\* The DEPENDS_ON adjacency entry written where the component node should be created.
AddComponentNodeEdgeFirst(t) ==
    /\ up
    /\ th[t].pc = "add_component"
    /\ graph' = PutEdge(graph, ProjectNode(th[t].project), CompNode(Components[th[t].i]),
                        [relationship |-> "DEPENDS_ON"])
    /\ th' = [th EXCEPT ![t] = [@ EXCEPT !.pc = "add_depends_on"]]
    /\ UNCHANGED <<disk, up, nextId, committed, tornRead>>
    /\ UNCHANGED <<seqVars, upgVars>>

\* generate_sbom lines 56-61
AddComponentNode(t) ==
    /\ up
    /\ th[t].pc = "add_component"
    /\ graph' = StmtAddComponent(graph, Components[th[t].i])
    /\ th' = [th EXCEPT ![t] = [@ EXCEPT !.pc = "add_depends_on"]]
    /\ UNCHANGED <<disk, up, nextId, committed, tornRead>>
    /\ UNCHANGED <<seqVars, upgVars>>

\* generate_sbom lines 64-65
AddDependsOnEdge(t) ==
    /\ up
    /\ th[t].pc = "add_depends_on"
    /\ graph' = StmtAddDependsOn(graph, th[t].project, Components[th[t].i])
    /\ th' = [th EXCEPT ![t] =
                 IF Len(Components[th[t].i].vulnerabilities) > 0
                 THEN [@ EXCEPT !.pc = "add_vuln", !.j = 1]
                 ELSE AfterComponent(@)]
    /\ UNCHANGED <<disk, up, nextId, committed, tornRead>>
    /\ UNCHANGED <<seqVars, upgVars>>

\* generate_sbom lines 69-74
AddVulnNode(t) ==
    /\ up
    /\ th[t].pc = "add_vuln"
    /\ graph' = StmtAddVuln(graph, Components[th[t].i].vulnerabilities[th[t].j])
    /\ th' = [th EXCEPT ![t] = [@ EXCEPT !.pc = "add_affected_by"]]
    /\ UNCHANGED <<disk, up, nextId, committed, tornRead>>
    /\ UNCHANGED <<seqVars, upgVars>>

\* generate_sbom line 76
AddAffectedByEdge(t) ==
    /\ up
    /\ th[t].pc = "add_affected_by"
    /\ graph' = StmtAddAffectedBy(graph, Components[th[t].i],
                                  Components[th[t].i].vulnerabilities[th[t].j])
    /\ th' = [th EXCEPT ![t] =
                 IF th[t].j < Len(Components[th[t].i].vulnerabilities)
                 THEN [@ EXCEPT !.pc = "add_vuln", !.j = th[t].j + 1]
                 ELSE AfterComponent(@)]
    /\ UNCHANGED <<disk, up, nextId, committed, tornRead>>
    /\ UNCHANGED <<seqVars, upgVars>>

\* _save_graph line 26: open(self.graph_file, 'wb')
SaveOpen(t) ==
    /\ up
    /\ th[t].pc = "save_open"
    /\ disk' = Truncated
    /\ th' = [th EXCEPT ![t] = [@ EXCEPT !.pc = "save_dump"]]
    /\ UNCHANGED <<graph, up, nextId, committed, tornRead>>
    /\ UNCHANGED <<seqVars, upgVars>>

\* _save_graph line 27: pickle.dump(self.graph, f), and the file closed
SaveDump(t) ==
    /\ up
    /\ th[t].pc = "save_dump"
    /\ disk' = Pickled(graph)
    /\ th' = [th EXCEPT ![t] = [@ EXCEPT !.pc = "store_sbom"]]
    /\ UNCHANGED <<graph, up, nextId, committed, tornRead>>
    /\ UNCHANGED <<seqVars, upgVars>>

\* generate_sbom lines 81-88 (the sbom_documents row) and the handler's return
StoreSbomDocument(t) ==
    /\ up
    /\ th[t].pc = "store_sbom"
    /\ committed' = Ingest(committed, th[t].project, th[t].url)
    /\ th' = [th EXCEPT ![t] = Idle]
    /\ UNCHANGED <<graph, disk, up, nextId, tornRead>>
    /\ UNCHANGED <<seqVars, upgVars>>

\* the ingestions that are running
InFlight == {t \in Threads : th[t].pc \in IngestSection}

\* G, and every graph of G with some of the ingestions running on the threads
\* of T run on it from start to end
RECURSIVE IngestClosure(_, _)
IngestClosure(G, T) ==
    IF T = {} THEN G
    ELSE LET t == CHOOSE t \in T : TRUE
         IN  IngestClosure(G \cup {Ingest(g, th[t].project, th[t].url) : g \in G}, T \ {t})

\* the graphs in which each running ingestion is either wholly absent or
\* wholly present
WholeGraphs == IngestClosure({committed}, InFlight)

\* get_sbom_graph, app.py lines 128-132, on a free thread: the call of
\* get_graph_data and the response.  The read is torn when no graph with the
\* running ingestions whole gives the same result.
GetSbomGraph(pid) ==
    /\ up
    /\ \E t \in Threads : th[t].pc = "idle"
    /\ LET d == GraphData(graph, pid)
       IN  tornRead' = (tornRead \/ d \notin {GraphData(g, pid) : g \in WholeGraphs})
    /\ UNCHANGED <<graph, disk, up, nextId, th, committed>>
    /\ UNCHANGED <<seqVars, upgVars>>

\* _load_graph, lines 18-22, on the file as it is
LoadGraph(d) == IF d.state = "complete" THEN d.content ELSE EmptyGraph

\* A restart whose _load_graph swallows the error of a file that is not a whole
\* pickle and keeps the empty graph of line 14.
CrashAndRestartLenient ==
    /\ up
    /\ th' = [t \in Threads |-> Idle]
    /\ graph' = LoadGraph(disk)
    /\ committed' = graph'
    /\ up' = TRUE
    /\ UNCHANGED <<disk, nextId, tornRead>>
    /\ UNCHANGED <<seqVars, upgVars>>

\* The process is killed and started again: every thread is gone, the tables of
\* sbom.db and the snapshot file stay.  The import of app.py constructs
\* SmartSBOMGraph (line 19), whose _load_graph unpickles the file when it
\* exists; pickle.load raises on a file that is not a whole pickle and the
\* import fails.
CrashAndRestart ==
    /\ up
    /\ th' = [t \in Threads |-> Idle]
    /\ graph' = LoadGraph(disk)
    /\ committed' = graph'
    /\ up' = (disk.state # "partial")
    /\ UNCHANGED <<disk, nextId, tornRead>>
    /\ UNCHANGED <<seqVars, upgVars>>


(***************************************************************************)
(* UniversalUpgradeEngine.  A version string is a record: text is the      *)
(* string as written, core the dot-separated numbers before any hyphen,    *)
(* pre the dot-separated identifiers after it.  An identifier is numeric   *)
(* (v its value) or alphanumeric (v its rank in ASCII order).              *)
(***************************************************************************)
Ver(text, core, pre) == [text |-> text, core |-> core, pre |-> pre]

NumId(n) == [num |-> TRUE, v |-> n]

\* ranks: "alpha" 1, "rc1" 2
AlnumId(rank) == [num |-> FALSE, v |-> rank]

NoneVersion == Ver("None", <<>>, <<>>)

VersionStrings ==
    { Ver("0.9.0", <<0, 9, 0>>, <<>>),
      Ver("1.0.0", <<1, 0, 0>>, <<>>),
      Ver("1.2.0", <<1, 2, 0>>, <<>>),
      Ver("1.2.1-alpha.1", <<1, 2, 1>>, <<AlnumId(1), NumId(1)>>),
      Ver("1.2.1", <<1, 2, 1>>, <<>>),
      Ver("2.0.0-rc1", <<2, 0, 0>>, <<AlnumId(2)>>),
      Ver("2.0.0", <<2, 0, 0>>, <<>>),
      Ver("1.0", <<1, 0>>, <<>>) }

MaxVersions == 2        \* a registry answer lists at most this many versions

\* semver.Version.parse succeeds: major.minor.patch, every part a number
IsSemVer(v) == Len(v.core) = 3

CmpInt(a, b) == IF a < b THEN -1 ELSE IF a > b THEN 1 ELSE 0

\* comparison of two prerelease identifiers: numeric ones by value, a numeric
\* one below an alphanumeric one, alphanumeric ones in ASCII order
CmpId(a, b) ==
    IF a.num = b.num THEN CmpInt(a.v, b.v)
    ELSE IF a.num THEN -1 ELSE 1

RECURSIVE CmpPre(_, _, _)
CmpPre(a, b, k) ==
    IF k > Len(a) \/ k > Len(b) THEN CmpInt(Len(a), Len(b))
    ELSE IF CmpId(a[k], b[k]) # 0 THEN CmpId(a[k], b[k])
    ELSE CmpPre(a, b, k + 1)

\* semver.compare(a, b) for two strings that parse: -1, 0 or 1
Compare(a, b) ==
    IF a.core[1] # b.core[1] THEN CmpInt(a.core[1], b.core[1])
    ELSE IF a.core[2] # b.core[2] THEN CmpInt(a.core[2], b.core[2])
    ELSE IF a.core[3] # b.core[3] THEN CmpInt(a.core[3], b.core[3])
    ELSE IF a.pre = <<>> /\ b.pre = <<>> THEN 0
    ELSE IF a.pre = <<>> THEN 1
    ELSE IF b.pre = <<>> THEN -1
    ELSE CmpPre(a.pre, b.pre, 1)

\* str(e) of the ValueError semver raises for a string that does not parse
InvalidSemVer(v) == <<v.text, "is not valid SemVer string">>

\* what a registry answered: the status of the response (or the exception
\* requests.get raised) and the keys of its version table
RegistryAnswers ==
    { [status |-> "200", versions |-> S] :
          S \in {S \in SUBSET VersionStrings : Cardinality(S) <= MaxVersions} }
    \cup { [status |-> "404", versions |-> {}],
           [status |-> "ConnectionError", versions |-> {}] }

NotAsked == [status |-> "not asked", versions |-> {}]

\* sorted(newer_versions, key=semver.Version.parse)[-1]
LatestOf(S) == CHOOSE v \in S : \A w \in S : Compare(v, w) >= 0

\* One try block of _find_latest_safe_version (lines 69-79 and 82-90): the
\* version it returns, or NoneVersion when it falls through.  semver.compare
\* raises inside the list comprehension on the first string that does not
\* parse, and the bare except swallows it.
FromRegistry(answer, current) ==
    IF answer.status # "200" THEN NoneVersion
    ELSE IF answer.versions = {} THEN NoneVersion
    ELSE IF ~IsSemVer(current) \/ \E v \in answer.versions : ~IsSemVer(v)
         THEN NoneVersion
    ELSE LET newer == {v \in answer.versions : Compare(v, current) > 0}
         IN  IF newer = {} THEN NoneVersion ELSE LatestOf(newer)

\* whether _find_latest_safe_version goes on to the npm registry
AsksNpm(current, p) == FromRegistry(p, current) = NoneVersion

\* _find_latest_safe_version, lines 66-92
FindLatestSafeVersion(current, p, n) ==
    IF FromRegistry(p, current) # NoneVersion THEN FromRegistry(p, current)
    ELSE FromRegistry(n, current)

NoRow == [component |-> None, version |-> NoneVersion, fixed_version |-> NoneVersion]

\* the strings the fixed_version column can hold besides NULL: the version
\* strings and one more that does not parse
FixedStrings == VersionStrings \cup {Ver("2.0", <<2, 0>>, <<>>)}

Rows ==
    { [component |-> "requests", version |-> c, fixed_version |-> f] :
          c \in VersionStrings, f \in FixedStrings \cup {NoneVersion} }

Infeasible(reason) ==
    [feasible |-> FALSE, reason |-> reason, component |-> None,
     from_version |-> NoneVersion, to_version |-> NoneVersion, confidence |-> 0]

Feasible(r, to, confidence) ==
    [feasible |-> TRUE, reason |-> <<>>, component |-> r.component,
     from_version |-> r.version, to_version |-> to, confidence |-> confidence]

\* confidence in tenths
ConfidenceFixed == 9

ConfidenceLatest == 7

\* `if fixed_version:` (line 38): None and '' are false
IsSet(v) == v.text \notin {"None", ""}

\* the fixed-version branch, lines 40-49
FixedBranchNotOlder(r) ==
    IF ~IsSemVer(r.fixed_version) THEN Infeasible(InvalidSemVer(r.fixed_version))
    ELSE IF ~IsSemVer(r.version) THEN Infeasible(InvalidSemVer(r.version))
    ELSE IF Compare(r.fixed_version, r.version) >= 0
         THEN Feasible(r, r.fixed_version, ConfidenceFixed)
    ELSE Infeasible(<<"Fixed version is not newer">>)

FixedBranch(r) ==
    IF ~IsSemVer(r.fixed_version) THEN Infeasible(InvalidSemVer(r.fixed_version))
    ELSE IF ~IsSemVer(r.version) THEN Infeasible(InvalidSemVer(r.version))
    ELSE IF Compare(r.fixed_version, r.version) > 0
         THEN Feasible(r, r.fixed_version, ConfidenceFixed)
    ELSE Infeasible(<<"Fixed version is not newer">>)

\* check_upgrade_feasibility, lines 20-64
CheckFeasibility(r, p, n) ==
    IF r = NoRow THEN Infeasible(<<"Vulnerability not found">>)
    ELSE IF IsSet(r.fixed_version) THEN FixedBranch(r)
    ELSE LET latest_safe == FindLatestSafeVersion(r.version, p, n)
         IN  IF latest_safe # NoneVersion
             THEN Feasible(r, latest_safe, ConfidenceLatest)
             ELSE Infeasible(<<"No safe upgrade path found">>)

NotRun == Infeasible(<<"not run">>)

InitUpgrade ==
    /\ row \in Rows \cup {NoRow}
    /\ pypi = NotAsked
    /\ npm = NotAsked
    /\ verdict = NotRun

\* check_upgrade_feasibility(vuln_id) on the row of vuln_id, the registries
\* answering p and n when they are asked
CheckUpgradeFeasibility(p, n) ==
    /\ verdict = NotRun
    /\ LET asksPypi == (row # NoRow /\ ~IsSet(row.fixed_version))
           asksNpm == asksPypi /\ AsksNpm(row.version, p)
       IN  /\ pypi' = IF asksPypi THEN p ELSE NotAsked
           /\ npm' = IF asksNpm THEN n ELSE NotAsked
           /\ verdict' = CheckFeasibility(row, pypi', npm')
    /\ UNCHANGED row
    /\ UNCHANGED <<graphVars, seqVars, srvVars>>


(***************************************************************************)
(* The specifications.                                                     *)
(***************************************************************************)
ProjectIds == 1..MaxProjectId

SeqIdle == InitSeq

ServerIdle == InitServer

UpgradeIdle ==
    /\ row = NoRow
    /\ pypi = NotAsked
    /\ npm = NotAsked
    /\ verdict = NotRun

SeqInit == InitGraph /\ InitSeq /\ ServerIdle /\ UpgradeIdle

SeqNext ==
    \/ \E pid \in ProjectIds, url \in Urls : GenerateSbom(pid, url)
    \/ \E pid \in ProjectIds : QueryReachableVulnerabilities(pid)
    \/ \E pid \in ProjectIds : GetGraphData(pid)

SpecSeq == SeqInit /\ [][SeqNext]_vars

Init == InitGraph /\ SeqIdle /\ InitServer /\ UpgradeIdle

Next ==
    \/ \E t \in Threads, taken \in BOOLEAN, url \in PostedUrls : HandlePost(t, taken, url)
    \/ \E t \in Threads : AddProjectNode(t)
    \/ \E t \in Threads : AddComponentNode(t)
    \/ \E t \in Threads : AddDependsOnEdge(t)
    \/ \E t \in Threads : AddVulnNode(t)
    \/ \E t \in Threads : AddAffectedByEdge(t)
    \/ \E t \in Threads : SaveOpen(t)
    \/ \E t \in Threads : SaveDump(t)
    \/ \E t \in Threads : StoreSbomDocument(t)
    \/ \E pid \in 1..MaxProjects : GetSbomGraph(pid)
    \/ CrashAndRestart

Spec == Init /\ [][Next]_vars

UpgradeInit == InitGraph /\ SeqIdle /\ ServerIdle /\ InitUpgrade

UpgradeNext ==
    \E p \in RegistryAnswers, n \in RegistryAnswers : CheckUpgradeFeasibility(p, n)

SpecUpgrade == UpgradeInit /\ [][UpgradeNext]_vars


(***************************************************************************)
(* The claims about the graph, under SpecSeq.                              *)
(***************************************************************************)
DependsOn(g, pid, c) ==
    /\ <<ProjectNode(pid), c>> \in Edges(g)
    /\ Get(g.adj[<<ProjectNode(pid), c>>], "relationship", None) = "DEPENDS_ON"

AffectedBy(g, c, v) ==
    /\ <<c, v>> \in Edges(g)
    /\ Get(g.adj[<<c, v>>], "relationship", None) = "AFFECTED_BY"

VulnNodes(g) == {n \in Nodes(g) : Get(g.node[n], "type", None) = "vulnerability"}

QueryReturned == lastCall.op = "query_reachable_vulnerabilities"

\* C1: after any sequence of ingestions, a vulnerability V of the graph appears
\* in the result of query_reachable_vulnerabilities(P) if and only if some
\* component C has both edges DEPENDS_ON(P, C) and AFFECTED_BY(C, V).
C1_ReachabilityCorrect ==
    QueryReturned =>
        \A v \in VulnNodes(graph) :
            (\E e \in ret.reachable : e.vulnerability = graph.node[v].id)
            <=> (\E c \in Nodes(graph) :
                     DependsOn(graph, lastCall.project, c) /\ AffectedBy(graph, c, v))

\* a query that found vulnerabilities of one project while the graph holds
\* vulnerability nodes
C1_Witness ==
    /\ QueryReturned
    /\ ret.reachable # {}
    /\ VulnNodes(graph) # {}

\* the nodes reached from the set S by walks of exactly k edges
RECURSIVE WalkEnds(_, _, _)
WalkEnds(g, S, k) ==
    IF k = 0 THEN S
    ELSE WalkEnds(g, {v \in Nodes(g) : \E u \in S : <<u, v>> \in Edges(g)}, k - 1)

\* path is a path of g from s to t with the fewest edges
IsShortestPath(g, path, s, t) ==
    /\ Len(path) >= 1
    /\ path[1] = s
    /\ path[Len(path)] = t
    /\ \A k \in 1..(Len(path) - 1) : <<path[k], path[k + 1]>> \in Edges(g)
    /\ \A k \in 0..(Len(path) - 2) : t \notin WalkEnds(g, {s}, k)

C3_IngestionIdempotent ==
    (lastCall.op = "generate_sbom" /\ prevCall = lastCall) =>
        /\ graph = prevGraph
        /\ disk = Pickled(prevGraph)

\* the second of two equal generate_sbom calls has run, on a graph that holds
\* another project too
C3_Witness ==
    /\ lastCall.op = "generate_sbom"
    /\ prevCall = lastCall
    /\ \E pid \in ProjectIds : pid # lastCall.project /\ HasNode(graph, ProjectNode(pid))

C5_SnapshotWriteAtomic ==
    /\ up
    /\ disk.state = "partial" => \E t \in Threads : th[t].pc \in SaveSection

\* C6: a get_graph_data that runs while generate_sbom calls are running returns
\* what it would return on a graph holding each of them wholly or not at all.
C6_NoTornRead == ~tornRead

\* C7: at most one thread at a time is between the first add_node of
\* generate_sbom and the end of its _save_graph.
C7_SingleWriter ==
    Cardinality({t \in Threads : th[t].pc \in WriterSection}) <= 1

(***************************************************************************)
(* The claims about check_upgrade_feasibility, under SpecUpgrade.          *)
(***************************************************************************)
\* semantic-version precedence of prerelease identifier lists: a is lower than b
PreLower(a, b) ==
    \/ /\ Len(a) < Len(b)
       /\ \A k \in 1..Len(a) : a[k] = b[k]
    \/ \E k \in 1..Len(a) :
           /\ k <= Len(b)
           /\ \A m \in 1..(k - 1) : a[m] = b[m]
           /\ \/ a[k].num /\ ~b[k].num
              \/ a[k].num = b[k].num /\ a[k].v < b[k].v

\* semantic-version precedence: a is strictly lower than b
Lower(a, b) ==
    \/ a.core[1] < b.core[1]
    \/ a.core[1] = b.core[1] /\ a.core[2] < b.core[2]
    \/ a.core[1] = b.core[1] /\ a.core[2] = b.core[2] /\ a.core[3] < b.core[3]
    \/ /\ a.core = b.core
       /\ \/ a.pre # <<>> /\ b.pre = <<>>
          \/ a.pre # <<>> /\ b.pre # <<>> /\ PreLower(a.pre, b.pre)

Checked == verdict # NotRun

\* C8: with a fixed version set and both versions parsing, the check is feasible
\* exactly when the fixed version is strictly greater than the current one; a
\* feasible result goes from the current to the fixed version with confidence
\* 0.9, an equal or older fixed version is infeasible.
C8_FixedVersionBranch ==
    (/\ Checked
     /\ row # NoRow
     /\ IsSet(row.fixed_version)
     /\ IsSemVer(row.fixed_version)
     /\ IsSemVer(row.version)) =>
        /\ verdict.feasible <=> Lower(row.version, row.fixed_version)
        /\ verdict.feasible =>
               /\ verdict.to_version = row.fixed_version
               /\ verdict.from_version = row.version
               /\ verdict.confidence = ConfidenceFixed

\* a feasible check of a row whose fixed version differs from the current one
\* in the prerelease only
C8_Witness ==
    /\ Checked
    /\ verdict.feasible
    /\ IsSet(row.fixed_version)
    /\ row.fixed_version.core = row.version.core

\* the versions the registries that were asked supplied
Available == pypi.versions \cup npm.versions

NewerAvailable == {v \in Available : IsSemVer(v) /\ Lower(row.version, v)}

\* C9: with no fixed version (and a current version that parses), the check is
\* feasible with confidence 0.7 exactly when the available versions hold one
\* strictly greater than the current version, to_version is then the greatest
\* of them, and otherwise the reason is that no safe upgrade path was found.
C9_MaxSelectionBranch ==
    (/\ Checked
     /\ row # NoRow
     /\ ~IsSet(row.fixed_version)
     /\ IsSemVer(row.version)) =>
        /\ verdict.feasible <=> NewerAvailable # {}
        /\ verdict.feasible =>
               /\ verdict.confidence = ConfidenceLatest
               /\ verdict.to_version \in NewerAvailable
               /\ \A w \in NewerAvailable : ~Lower(verdict.to_version, w)
        /\ ~verdict.feasible => verdict.reason = <<"No safe upgrade path found">>

\* what the search returns when the strings that do not parse are taken out of
\* each registry's answer: the greatest newer version of PyPI, else of npm
NewerParsable(answer) == {v \in answer.versions : IsSemVer(v) /\ Lower(row.version, v)}

IsGreatestOf(v, S) == v \in S /\ \A w \in S : ~Lower(v, w)

\* C10: strings that do not parse among the available versions are left out and
\* do not end the search: it returns the greatest parsable version strictly
\* greater than the current one, as if those strings had been removed.
C10_UnparsableExcluded ==
    (/\ Checked
     /\ row # NoRow
     /\ ~IsSet(row.fixed_version)
     /\ IsSemVer(row.version)) =>
        IF NewerParsable(pypi) # {}
        THEN verdict.feasible /\ IsGreatestOf(verdict.to_version, NewerParsable(pypi))
        ELSE IF NewerParsable(npm) # {}
        THEN verdict.feasible /\ IsGreatestOf(verdict.to_version, NewerParsable(npm))
        ELSE ~verdict.feasible

\* the reason says that the string v does not parse as a semantic version
StatesUnparsable(reason, v) == reason = <<v.text, "is not valid SemVer string">>

\* C11: for every row whose current version does not parse, with or without a
\* fixed version and whatever the registries answer, the check returns an
\* infeasible result whose reason says that the current version is unparsable.
C11_UnparsableCurrentFails ==
    (/\ Checked
     /\ row # NoRow
     /\ ~IsSemVer(row.version)) =>
        /\ ~verdict.feasible
        /\ StatesUnparsable(verdict.reason, row.version)

(***************************************************************************)
(* The claims about get_graph_data, under SpecSeq.                         *)
(***************************************************************************)
GraphDataReturned == lastCall.op = "get_graph_data"

\* the nodes reached from s by walks of any number of edges, s included
ForwardReach(g, s) == UNION {WalkEnds(g, {s}, k) : k \in 0..Cardinality(Nodes(g))}

\* C12: for a project whose node exists, get_graph_data returns as nodes exactly
\* the project node and the nodes reachable from it along the edges, and as
\* links exactly the edges of the graph with both ends among those nodes.
C12_SubgraphContent ==
    (GraphDataReturned /\ HasNode(graph, ProjectNode(lastCall.project))) =>
        LET reach == ForwardReach(graph, ProjectNode(lastCall.project))
        IN  /\ ret.data.raised = None
            /\ {n.id : n \in ret.data.nodes} = reach
            /\ Cardinality(ret.data.nodes) = Cardinality(reach)
            /\ {<<l.source, l.target>> : l \in ret.data.links}
                   = {e \in Edges(graph) : e[1] \in reach /\ e[2] \in reach}
            /\ Cardinality(ret.data.links)
                   = Cardinality({e \in Edges(graph) : e[1] \in reach /\ e[2] \in reach})

\* get_graph_data has returned the subgraph of one project while another
\* project, with edges into the same components, is in the graph
C12_Witness ==
    /\ GraphDataReturned
    /\ ret.data.links # {}
    /\ \E pid \in ProjectIds :
           /\ pid # lastCall.project
           /\ \E c \in Nodes(graph) : DependsOn(graph, pid, c)

\* the exceptions with which networkx reports a node that is not in the graph
NodeMissingErrors == {"NetworkXError", "NodeNotFound"}

\* C13: get_graph_data for a project id whose project node is not in the graph
\* ends in a not-found error that reaches the caller, and returns no
\* nodes/links result.
C13_UnknownProjectFails ==
    (GraphDataReturned /\ ~HasNode(graph, ProjectNode(lastCall.project))) =>
        ret.data.raised \in NodeMissingErrors

\* get_graph_data has been called for a project that is not in a graph which
\* holds another project
C13_Witness ==
    /\ GraphDataReturned
    /\ ~HasNode(graph, ProjectNode(lastCall.project))
    /\ \E pid \in ProjectIds : HasNode(graph, ProjectNode(pid))

(***************************************************************************)
(* The claims about what later ingestions leave alone, under SpecSeq.      *)
(***************************************************************************)
SbomGenerated == lastCall.op = "generate_sbom"

Severity(g, v) == Get(g.node[v], "severity", None)

C15_ProjectNodeFrame ==
    (SbomGenerated /\ HasNode(prevGraph, ProjectNode(lastCall.project))) =>
        LET before == prevGraph.node[ProjectNode(lastCall.project)]
            after == graph.node[ProjectNode(lastCall.project)]
        IN  /\ DOMAIN after = DOMAIN before
            /\ \A k \in DOMAIN before \ {"timestamp"} : after[k] = before[k]

\* C15 for the calls that pass the url the node already has
C15_SameUrlFrame ==
    (/\ SbomGenerated
     /\ HasNode(prevGraph, ProjectNode(lastCall.project))
     /\ prevGraph.node[ProjectNode(lastCall.project)].url = lastCall.url) =>
        graph.node[ProjectNode(lastCall.project)]
            = prevGraph.node[ProjectNode(lastCall.project)]

(***************************************************************************)
(* The claim about the start of the server, under Spec.                    *)
(***************************************************************************)
\* the snapshot file exists, is not a whole pickle, and no _save_graph of the
\* running process is writing it: a process that is gone left it so
CorruptSnapshot ==
    /\ disk.state = "partial"
    /\ \A t \in Threads : th[t].pc \notin SaveSection

\* C16: with a snapshot file that cannot be read as a graph, no SmartSBOMGraph
\* is in service (its construction, and with it the start of the server, has
\* failed); a server in service holds the empty graph only when there is no
\* snapshot file.
C16_CorruptSnapshotFatal ==
    /\ CorruptSnapshot => ~up
    /\ (up /\ graph = EmptyGraph) => disk.state = "absent"

\* two projects were posted, the process was killed inside a _save_graph and the
\* restart has failed on the file it left
C16_Witness ==
    /\ CorruptSnapshot
    /\ ~up
    /\ committed = EmptyGraph
    /\ nextId > 2

(***************************************************************************)
(* SpecIdentity: the statements of generate_sbom on component records of   *)
(* any name and version.  The node ids are built by the f-strings of lines *)
(* 50, 56 and 69; the list of lines 36-47 is one value of the local        *)
(* `components`, here each call ingests a list of one record drawn from    *)
(* ComponentRecords.                                                        *)
(***************************************************************************)
MaxRecords == 2         \* SpecIdentity: number of ingestions in one run

ComponentNames == {"a", "a_b", "project", "vuln"}

ComponentVersions == {"1", "b_1"}

ComponentRecords ==
    { [name |-> n, version |-> v, type |-> "library", vulnerabilities |-> vs] :
          n \in ComponentNames, v \in ComponentVersions, vs \in {<<>>, <<"1">>} }

\* lines 56-76: the body of the outer loop for one component record
IngestRecord(g, pid, comp) ==
    IngestVulns(StmtAddDependsOn(StmtAddComponent(g, comp), pid, comp), comp, 1)

\* generate_sbom(project_id, repo_url) with components = [comp]
GenerateSbomOf(pid, url, comp) ==
    /\ ncalls < MaxRecords
    /\ graph' = IngestRecord(StmtAddProject(graph, pid, url), pid, comp)
    /\ disk' = SaveGraph(graph')
    /\ lastCall' = [op |-> "generate_sbom", project |-> pid, url |-> url]
    /\ ret' = [NoRet EXCEPT !.sbom = [status |-> "success", components |-> 1]]
    /\ ncalls' = ncalls + 1
    /\ prevCall' = lastCall
    /\ prevGraph' = graph
    /\ UNCHANGED <<srvVars, upgVars>>

IdentityInit == InitGraph /\ InitSeq /\ ServerIdle /\ UpgradeIdle

IdentityNext ==
    \E pid \in ProjectIds, url \in PostedUrls, comp \in ComponentRecords :
        GenerateSbomOf(pid, url, comp)

SpecIdentity == IdentityInit /\ [][IdentityNext]_vars

(***************************************************************************)
(* The claim about node identity, under SpecIdentity.                      *)
(***************************************************************************)
Kind(g, n) == Get(g.node[n], "type", None)

Relationship(g, e) == Get(g.adj[e], "relationship", None)

\* the edge is DEPENDS_ON from a project to a component or AFFECTED_BY from a
\* component to a vulnerability
WellKindedEdge(g, e) ==
    \/ /\ Relationship(g, e) = "DEPENDS_ON"
       /\ Kind(g, e[1]) = "project"
       /\ Kind(g, e[2]) = "component"
    \/ /\ Relationship(g, e) = "AFFECTED_BY"
       /\ Kind(g, e[1]) = "component"
       /\ Kind(g, e[2]) = "vulnerability"

\* no walk of one edge or more leads from a node back to it
Acyclic(g) ==
    \A n \in Nodes(g) : \A k \in 1..Cardinality(Nodes(g)) : n \notin WalkEnds(g, {n}, k)

\* the node stands for the same thing in h as in g: same kind and, for a
\* component, same name and version
SameIdentity(g, h, n) ==
    /\ HasNode(h, n)
    /\ Kind(h, n) = Kind(g, n)
    /\ Kind(g, n) = "component" =>
           /\ Get(h.node[n], "name", None) = Get(g.node[n], "name", None)
           /\ Get(h.node[n], "version", None) = Get(g.node[n], "version", None)

====
